---- MODULE Spec2Model ----
(***************************************************************************)
(* Universal Markdown Converter (universal_md_converter.py).               *)
(*                                                                         *)
(* Four specifications over one set of variables:                          *)
(*   SpecChrome  html_to_pdf_chrome, one subprocess invocation per step    *)
(*   Spec        the MarkdownConverter pipeline called as a library:       *)
(*               convert_md_to_html, convert_md_to_pdf, batch_convert      *)
(*   SpecGui     process start, main() and the ConverterGUI worker threads *)
(*   SpecRender  the document convert_md_to_html assembles, word by word   *)
(* Each specification leaves the variables of the others untouched.        *)
(***************************************************************************)
EXTENDS Integers, Sequences, FiniteSets, Bags, TLC

VARIABLES
    \* html_to_pdf_chrome (l.288-316)
    chrome_i,            \* index into chrome_paths of the candidate of the current iteration
    chrome_step,         \* "probe": before the --version run, "render": before the print run
    attempts,            \* what each candidate tried so far did: [path, probe, render]
    chrome_ret,          \* "running", "true", "false", or "raised" (an exception left the function)
    \* the converter called as a library
    MARKDOWN_AVAILABLE,  \* l.31-37, set once when the module is imported
    fs,                  \* the files on disk: <<directory, name>> -> contents
    dirs,                \* the directories that exist
    call,                \* the running convert_md_to_html / convert_md_to_pdf frame
    batch,               \* the running batch_convert frame
    \* the GUI process
    main_pc,             \* where main() is
    remedy,              \* what main()'s missing-dependency branch ended in
    tkvars,              \* file_var, dir_var, output_dir_var, output_format
    workers,             \* the running threads convert_file / batch_convert started:
                         \* a bag of their frames (threads have no order)
    progress,            \* the progress bar: TRUE after start(), FALSE after stop()
    \* the assembled document
    page

chromeVars == <<chrome_i, chrome_step, attempts, chrome_ret>>
libVars    == <<fs, dirs, call, batch>>
pageVars   == <<page>>
guiVars    == <<main_pc, remedy, tkvars, workers, progress>>
vars       == <<chrome_i, chrome_step, attempts, chrome_ret, MARKDOWN_AVAILABLE,
                fs, dirs, call, batch, main_pc, remedy, tkvars, workers, progress, page>>

\* Python's None where a path is expected, and where a directory name is
None == << >>
NoDir == "None"

(***************************************************************************)
(* html_to_pdf_chrome                                                      *)
(***************************************************************************)

\* l.290-295
chrome_paths ==
    << "chrome", "google-chrome", "chromium", "chromium-browser",
       "C:\\Program Files\\Google\\Chrome\\Application\\chrome.exe",
       "C:\\Program Files (x86)\\Google\\Chrome\\Application\\chrome.exe",
       "/Applications/Google Chrome.app/Contents/MacOS/Google Chrome" >>

\* What subprocess.run([chrome_path, "--version"], check=True, timeout=5) can do:
\* return ("ok"), or raise CalledProcessError (non-zero exit), FileNotFoundError
\* (no such binary), TimeoutExpired, or another OSError of the launch, such as
\* PermissionError (the file found is not executable).
ProbeOutcomes ==
    {"ok", "CalledProcessError", "FileNotFoundError", "TimeoutExpired", "PermissionError"}

\* What subprocess.run(cmd, timeout=30) can do: it has no check=True, so a
\* non-zero exit is a return value ("exit1"), not an exception.
RenderOutcomes == {"exit0", "exit1", "TimeoutExpired", "PermissionError"}

\* l.313: the exceptions the loop body catches
ChromeCaught == {"CalledProcessError", "FileNotFoundError", "TimeoutExpired"}

ProbePassesLax(o) == o \in {"ok", "CalledProcessError"}
\* l.299-300: with check=True only a zero exit of the probe reaches the render
ProbePasses(o) == o = "ok"

\* l.310: if result.returncode == 0
RenderSucceeds(o) == o = "exit0"

IsException(o) == o \notin {"ok", "exit0", "exit1", "none"}

\* an attempt that passed both steps
Passed(a) == a.probe = "ok" /\ a.render = "exit0"

ChromeIdle ==
    /\ chrome_i = 1
    /\ chrome_step = "probe"
    /\ attempts = << >>
    /\ chrome_ret = "idle"

\* entering html_to_pdf_chrome
ChromeInit ==
    /\ chrome_i = 1
    /\ chrome_step = "probe"
    /\ attempts = << >>
    /\ chrome_ret = "running"

\* l.297-300, 313-314: the version probe of candidate chrome_i
ChromeProbe ==
    /\ chrome_ret = "running"
    /\ chrome_step = "probe"
    /\ chrome_i <= Len(chrome_paths)
    /\ \E o \in ProbeOutcomes :
          /\ attempts' = Append(attempts,
                 [path |-> chrome_paths[chrome_i], probe |-> o, render |-> "none"])
          /\ IF ProbePasses(o)
               THEN /\ chrome_step' = "render"
                    /\ UNCHANGED <<chrome_i, chrome_ret>>
               ELSE IF o \in ChromeCaught
                 THEN /\ chrome_i' = chrome_i + 1
                      /\ UNCHANGED <<chrome_step, chrome_ret>>
                 ELSE /\ chrome_ret' = "raised"
                      /\ UNCHANGED <<chrome_i, chrome_step>>
    /\ UNCHANGED <<libVars, guiVars, pageVars, MARKDOWN_AVAILABLE>>

\* l.302-314: the headless print run of candidate chrome_i
ChromeRender ==
    /\ chrome_ret = "running"
    /\ chrome_step = "render"
    /\ \E o \in RenderOutcomes :
          /\ attempts' = [attempts EXCEPT ![Len(attempts)].render = o]
          /\ IF RenderSucceeds(o)
               THEN /\ chrome_ret' = "true"
                    /\ UNCHANGED <<chrome_i, chrome_step>>
               ELSE IF IsException(o) /\ o \notin ChromeCaught
                 THEN /\ chrome_ret' = "raised"
                      /\ UNCHANGED <<chrome_i, chrome_step>>
                 ELSE /\ chrome_i' = chrome_i + 1
                      /\ chrome_step' = "probe"
                      /\ UNCHANGED chrome_ret
    /\ UNCHANGED <<libVars, guiVars, pageVars, MARKDOWN_AVAILABLE>>

\* l.316: the list is exhausted
ChromeReturnFalse ==
    /\ chrome_ret = "running"
    /\ chrome_step = "probe"
    /\ chrome_i > Len(chrome_paths)
    /\ chrome_ret' = "false"
    /\ UNCHANGED <<chrome_i, chrome_step, attempts>>
    /\ UNCHANGED <<libVars, guiVars, pageVars, MARKDOWN_AVAILABLE>>

(***************************************************************************)
(* Paths.  A file name is the sequence of its dot-separated parts:         *)
(* "a.md" is <<"a","md">>, "a.b.md" is <<"a","b","md">>, ".md" is          *)
(* <<"","md">>.  A path is <<directory, name>>.                            *)
(***************************************************************************)

\* how many of FileNames the model uses
MaxFiles == 3

FileNames ==
    << <<"a", "md">>, <<"b", "md">>, <<"a", "txt">>, <<"a", "b", "md">>, <<"", "md">> >>

NameSet == { FileNames[i] : i \in 1..MaxFiles }

\* a stale output of an earlier run lying beside the sources
StaleHtml == <<"a", "html">>

Dirs == {"in", "out"}

\* pathlib PurePath.suffix: the text from the last dot on, unless that dot is the
\* name's first or last character
HasSuffix(name) ==
    /\ Len(name) > 1
    /\ name[Len(name)] # ""
    /\ ~(Len(name) = 2 /\ name[1] = "")

\* pathlib PurePath.stem
Stem(name) == IF HasSuffix(name) THEN SubSeq(name, 1, Len(name) - 1) ELSE name

\* pathlib PurePath.with_suffix("." + ext): the old suffix, if any, is replaced
WithSuffix(name, ext) ==
    IF HasSuffix(name) THEN Append(SubSeq(name, 1, Len(name) - 1), ext)
                       ELSE Append(name, ext)

\* f"{stem}.{ext}" (l.366, 369, 540, 546)
StemDot(stem, ext) == Append(stem, ext)

\* pathlib glob of one directory level: "*.md" is every name ending in ".md",
\* "*" is every name
Matches(pattern, name) ==
    IF pattern = "*.md" THEN Len(name) >= 2 /\ name[Len(name)] = "md" ELSE TRUE

FilesIn(fsys, d) == { p[2] : p \in { q \in DOMAIN fsys : q[1] = d } }

Glob(fsys, d, pattern) == { n \in FilesIn(fsys, d) : Matches(pattern, n) }

\* list(input_path.glob(pattern)): the matches in whatever order the file system
\* lists them
Orders(S) ==
    { s \in [1..Cardinality(S) -> S] : \A i, j \in 1..Cardinality(S) : s[i] = s[j] => i = j }

\* the file system with `data` written at path p
Written(fsys, p, data) ==
    [q \in DOMAIN fsys \cup {p} |-> IF q = p THEN data ELSE fsys[q]]

\* the file system without path p
Removed(fsys, p) == [q \in DOMAIN fsys \ {p} |-> fsys[q]]

(***************************************************************************)
(* convert_md_to_html                                                      *)
(***************************************************************************)

\* what reading the source can do (l.242-243): succeed, or fail on an unreadable
\* or undecodable file
ReadOutcomes == {"ok", "UnicodeDecodeError"}

Raise(e, fsys) == [exc |-> e, ret |-> None, fs |-> fsys]

convert_md_to_html_unchecked(avail, fsys, ds, input, output, read) ==
    IF input \notin DOMAIN fsys THEN Raise("FileNotFoundError", fsys)
    ELSE LET out == IF output = None THEN <<input[1], WithSuffix(input[2], "html")>>
                                    ELSE output
         IN  IF read # "ok" THEN Raise(read, fsys)
             ELSE IF out[1] \notin ds THEN Raise("FileNotFoundError", fsys)
             ELSE [exc |-> "none", ret |-> out,
                   fs  |-> Written(fsys, out, [kind |-> "html", of |-> input])]

convert_md_to_html_opens_first(avail, fsys, ds, input, output, read) ==
    LET out == IF output = None THEN <<input[1], WithSuffix(input[2], "html")>>
                                ELSE output
        opened == IF out[1] \in ds
                    THEN Written(fsys, out, [kind |-> "html", of |-> input])
                    ELSE fsys
    IN  IF ~avail THEN Raise("ImportError", opened)
        ELSE IF input \notin DOMAIN fsys THEN Raise("FileNotFoundError", opened)
        ELSE IF read # "ok" THEN Raise(read, fsys)
        ELSE IF out[1] \notin ds THEN Raise("FileNotFoundError", fsys)
        ELSE [exc |-> "none", ret |-> out, fs |-> opened]

\* l.229-286.  avail is MARKDOWN_AVAILABLE, ds the existing directories, read
\* the outcome of reading the source.
convert_md_to_html(avail, fsys, ds, input, output, read) ==
    IF ~avail THEN Raise("ImportError", fsys)
    ELSE IF input \notin DOMAIN fsys THEN Raise("FileNotFoundError", fsys)
    ELSE LET out == IF output = None THEN <<input[1], WithSuffix(input[2], "html")>>
                                    ELSE output
         IN  IF read # "ok" THEN Raise(read, fsys)
             ELSE IF out[1] \notin ds THEN Raise("FileNotFoundError", fsys)
             ELSE [exc |-> "none", ret |-> out,
                   fs  |-> Written(fsys, out, [kind |-> "html", of |-> input])]

(***************************************************************************)
(* The call frames                                                         *)
(***************************************************************************)

NoCall ==
    [fn |-> "none", pc |-> "idle", owner |-> "none", input |-> None, output |-> None,
     input_existed |-> FALSE, output_file |-> None, html_file |-> None, chrome |-> "none", unlink |-> "none", ret |-> None,
     exc |-> "none", before |-> << >>]

\* input_existed records whether the source path exists as the call is made,
\* before the files on disk at that moment
NewCall(fn, owner, input, output, existed) ==
    [NoCall EXCEPT !.fn = fn, !.pc = "start", !.owner = owner, !.input = input,
                   !.output = output, !.input_existed = existed, !.before = fs]

NoBatch ==
    [pc |-> "idle", input_dir |-> NoDir, output_path |-> NoDir, to_pdf |-> FALSE,
     md_files |-> << >>, idx |-> 1, results |-> << >>, attempted |-> << >>,
     failed |-> << >>, exc |-> "none", dirs_before |-> {}]

\* the ways html_to_pdf_chrome ends: return True (l.311), return False (l.316),
\* or an exception that l.313 does not catch
ChromeExits == {"true", "false", "raised"}

\* the inputs of a single-file call: a path that may or may not exist
InputPaths == { <<"in", n>> : n \in NameSet }

OutputChoices(input, ext) ==
    {None} \cup { <<d, StemDot(Stem(input[2]), ext)>> : d \in Dirs }

\* a library user calls convert_md_to_html(input, output)
CallHtml ==
    /\ call.fn = "none" /\ batch.pc = "idle"
    /\ \E input \in InputPaths : \E output \in OutputChoices(input, "html") :
          call' = NewCall("html", "api", input, output, input \in DOMAIN fs)
    /\ UNCHANGED <<fs, dirs, batch>>
    /\ UNCHANGED <<chromeVars, guiVars, pageVars, MARKDOWN_AVAILABLE>>

\* a library user calls convert_md_to_pdf(input, output)
CallPdf ==
    /\ call.fn = "none" /\ batch.pc = "idle"
    /\ \E input \in InputPaths : \E output \in OutputChoices(input, "pdf") :
          call' = NewCall("pdf", "api", input, output, input \in DOMAIN fs)
    /\ UNCHANGED <<fs, dirs, batch>>
    /\ UNCHANGED <<chromeVars, guiVars, pageVars, MARKDOWN_AVAILABLE>>

\* l.229-286: the body of convert_md_to_html
HtmlRun ==
    /\ call.fn = "html" /\ call.pc = "start"
    /\ \E read \in ReadOutcomes :
          LET res == convert_md_to_html(MARKDOWN_AVAILABLE, fs, dirs,
                                        call.input, call.output, read)
          IN  /\ fs' = res.fs
              /\ call' = [call EXCEPT !.pc = "done", !.ret = res.ret, !.exc = res.exc,
                                       !.output_file = res.ret]
    /\ UNCHANGED <<dirs, batch>>
    /\ UNCHANGED <<chromeVars, guiVars, pageVars, MARKDOWN_AVAILABLE>>

(***************************************************************************)
(* convert_md_to_pdf                                                       *)
(***************************************************************************)

\* l.326: an exception of convert_md_to_html leaves convert_md_to_pdf; otherwise
\* html_file is its result and the PDF stage is next
PdfAfterHtml(c, res) ==
    IF res.exc # "none" THEN [c EXCEPT !.pc = "done", !.exc = res.exc]
                        ELSE [c EXCEPT !.pc = "chrome", !.html_file = res.ret]

\* l.320-326
PdfHtml ==
    /\ call.fn = "pdf" /\ call.pc = "start"
    /\ \E read \in ReadOutcomes :
          LET out == IF call.output = None
                       THEN <<call.input[1], WithSuffix(call.input[2], "pdf")>>
                       ELSE call.output
              res == convert_md_to_html(MARKDOWN_AVAILABLE, fs, dirs,
                                        call.input, None, read)
          IN  /\ fs' = res.fs
              /\ call' = PdfAfterHtml([call EXCEPT !.output_file = out], res)
    /\ UNCHANGED <<dirs, batch>>
    /\ UNCHANGED <<chromeVars, guiVars, pageVars, MARKDOWN_AVAILABLE>>

\* l.329: html_to_pdf_chrome(html_file, output_file).  The browser can write the
\* PDF only into a directory that exists.
PdfChrome ==
    /\ call.fn = "pdf" /\ call.pc = "chrome"
    /\ \E c \in ChromeExits :
          /\ c = "true" => call.output_file[1] \in dirs
          /\ fs' = IF c = "true"
                     THEN Written(fs, call.output_file, [kind |-> "pdf", of |-> call.input])
                     ELSE fs
          /\ call' = CASE c = "true"  -> [call EXCEPT !.chrome = c, !.pc = "cleanup"]
                       [] c = "false" -> [call EXCEPT !.chrome = c, !.pc = "fallback"]
                       [] c = "raised" -> [call EXCEPT !.chrome = c, !.pc = "done",
                                                      !.exc = "PermissionError"]
    /\ UNCHANGED <<dirs, batch>>
    /\ UNCHANGED <<chromeVars, guiVars, pageVars, MARKDOWN_AVAILABLE>>

UnlinkFailedRaises(c) ==
    [c EXCEPT !.unlink = "failed", !.pc = "done", !.exc = "PermissionError"]
\* l.331-335: except: pass, then return str(output_file)
UnlinkFailed(c) == [c EXCEPT !.unlink = "failed", !.pc = "done", !.ret = c.output_file]

\* l.330-335: the PDF was produced
PdfCleanup ==
    /\ call.fn = "pdf" /\ call.pc = "cleanup"
    /\ \/ /\ call.html_file \in DOMAIN fs
          /\ fs' = Removed(fs, call.html_file)
          /\ call' = [call EXCEPT !.unlink = "ok", !.pc = "done", !.ret = call.output_file]
       \/ /\ fs' = fs
          /\ call' = UnlinkFailed(call)
    /\ UNCHANGED <<dirs, batch>>
    /\ UNCHANGED <<chromeVars, guiVars, pageVars, MARKDOWN_AVAILABLE>>

\* l.336-344: no PDF; whatever webbrowser.open does is ignored
PdfFallback ==
    /\ call.fn = "pdf" /\ call.pc = "fallback"
    /\ call' = [call EXCEPT !.pc = "done", !.ret = call.html_file]
    /\ UNCHANGED <<fs, dirs, batch>>
    /\ UNCHANGED <<chromeVars, guiVars, pageVars, MARKDOWN_AVAILABLE>>

(***************************************************************************)
(* batch_convert                                                           *)
(***************************************************************************)

InputDirChoices == {"in", "nodir"}
OutputDirChoices == {NoDir, "out"}
Patterns == {"*.md", "*"}

BatchOnExceptionReraise(b, name, e) == [b EXCEPT !.pc = "done", !.exc = e]
\* l.375-376: the exception of one file is printed and the loop goes on
BatchOnException(b, name, e) ==
    [b EXCEPT !.failed = Append(@, name), !.idx = @ + 1, !.pc = "loop"]

BatchOnResultPrepend(b, result) ==
    [b EXCEPT !.results = <<result>> \o @, !.idx = @ + 1, !.pc = "loop"]
\* l.372-373: results.append(result)
BatchOnResult(b, result) ==
    [b EXCEPT !.results = Append(@, result), !.idx = @ + 1, !.pc = "loop"]

\* l.366, 369: output_path / f"{md_file.stem}.pdf" or ".html"
BatchOutputFile(b, name) ==
    <<b.output_path, StemDot(Stem(name), IF b.to_pdf THEN "pdf" ELSE "html")>>

\* l.346-362: the directory checks and the enumeration
BatchStart ==
    /\ call.fn = "none" /\ batch.pc = "idle"
    /\ \E input_dir \in InputDirChoices, output_dir \in OutputDirChoices,
          to_pdf \in BOOLEAN, pattern \in Patterns :
          IF input_dir \notin dirs
            THEN /\ batch' = [batch EXCEPT !.pc = "done", !.input_dir = input_dir,
                                           !.exc = "ValueError",
                                           !.dirs_before = dirs]
                 /\ dirs' = dirs
            ELSE /\ dirs' = IF output_dir = NoDir THEN dirs ELSE dirs \cup {output_dir}
                 /\ \E files \in Orders(Glob(fs, input_dir, pattern)) :
                       batch' = [batch EXCEPT
                           !.pc = IF files = << >> THEN "done" ELSE "loop",
                           !.input_dir = input_dir,
                           !.output_path = IF output_dir = NoDir THEN input_dir
                                                                ELSE output_dir,
                           !.to_pdf = to_pdf,
                           !.md_files = files,
                           !.dirs_before = dirs]
    /\ UNCHANGED <<fs, call>>
    /\ UNCHANGED <<chromeVars, guiVars, pageVars, MARKDOWN_AVAILABLE>>

\* l.363-370: the loop takes the next file and calls the single-file conversion
BatchConvert ==
    /\ batch.pc = "loop"
    /\ batch.idx <= Len(batch.md_files)
    /\ LET name == batch.md_files[batch.idx]
       IN  /\ call' = NewCall(IF batch.to_pdf THEN "pdf" ELSE "html", "batch",
                              <<batch.input_dir, name>>, BatchOutputFile(batch, name),
                              <<batch.input_dir, name>> \in DOMAIN fs)
           /\ batch' = [batch EXCEPT !.pc = "converting",
                                     !.attempted = Append(@, name)]
    /\ UNCHANGED <<fs, dirs>>
    /\ UNCHANGED <<chromeVars, guiVars, pageVars, MARKDOWN_AVAILABLE>>

\* l.372-376: the conversion returned or raised
BatchCollect ==
    /\ batch.pc = "converting"
    /\ call.pc = "done"
    /\ batch' = IF call.exc = "none"
                  THEN BatchOnResult(batch, call.ret)
                  ELSE BatchOnException(batch, batch.md_files[batch.idx], call.exc)
    /\ call' = NoCall
    /\ UNCHANGED <<fs, dirs>>
    /\ UNCHANGED <<chromeVars, guiVars, pageVars, MARKDOWN_AVAILABLE>>

\* l.378
BatchReturn ==
    /\ batch.pc = "loop"
    /\ batch.idx > Len(batch.md_files)
    /\ batch' = [batch EXCEPT !.pc = "done"]
    /\ UNCHANGED <<fs, dirs, call>>
    /\ UNCHANGED <<chromeVars, guiVars, pageVars, MARKDOWN_AVAILABLE>>

(***************************************************************************)
(* Spec: the converter called as a library, one call per behaviour         *)
(***************************************************************************)

InitialNames == NameSet \cup {StaleHtml}

Original(p) == [kind |-> "orig", of |-> p]

\* l.422, 431, 442, 455: the Tk variables as setup_gui creates them; an empty
\* file_var is None
NewTkVars ==
    [file_var |-> None, dir_var |-> "", output_dir_var |-> "", output_format |-> "html"]

GuiIdle ==
    /\ main_pc = "idle"
    /\ remedy = "none"
    /\ tkvars = NewTkVars
    /\ workers = EmptyBag
    /\ progress = FALSE

LibIdle ==
    /\ fs = << >>
    /\ dirs = {"in"}
    /\ call = NoCall
    /\ batch = NoBatch

PageIdle == page = [state |-> "idle"]

Init ==
    /\ ChromeIdle /\ GuiIdle /\ PageIdle
    /\ MARKDOWN_AVAILABLE \in BOOLEAN
    /\ \E present \in SUBSET InitialNames :
          fs = [p \in { <<"in", n>> : n \in present } |-> Original(p)]
    /\ dirs \in {{"in"}, {"in", "out"}}
    /\ call = NoCall
    /\ batch = NoBatch

Next ==
    \/ CallHtml
    \/ CallPdf
    \/ HtmlRun
    \/ PdfHtml
    \/ PdfChrome
    \/ PdfCleanup
    \/ PdfFallback
    \/ BatchStart
    \/ BatchConvert
    \/ BatchCollect
    \/ BatchReturn

Spec == Init /\ [][Next]_vars

(***************************************************************************)
(* SpecChrome: one run of html_to_pdf_chrome                               *)
(***************************************************************************)

InitChrome ==
    /\ ChromeInit /\ GuiIdle /\ LibIdle /\ PageIdle
    /\ MARKDOWN_AVAILABLE = TRUE

NextChrome ==
    \/ ChromeProbe
    \/ ChromeRender
    \/ ChromeReturnFalse

SpecChrome == InitChrome /\ [][NextChrome]_vars

(***************************************************************************)
(* SpecGui: process start, main() and the GUI's worker threads             *)
(***************************************************************************)

\* how many worker threads the model lets run at the same time
MaxWorkers == 2

\* the files the user can select, and the directories
GuiFiles == { <<"in", <<"a", "md">>>>, <<"in", <<"b", "md">>>> }
GuiOutputDirs == {"", "out"}
Formats == {"html", "pdf"}

AfterRemedyLaunches(r) == IF r = "installed" THEN "launch" ELSE "returned"
\* l.637-638: root.destroy(); return, whatever the dialogs and the install did
AfterRemedy(r) == "returned"

\* l.600: MARKDOWN_AVAILABLE was set when the module was imported
MainCheck ==
    /\ main_pc = "start"
    /\ main_pc' = IF MARKDOWN_AVAILABLE THEN "launch" ELSE "dialog"
    /\ UNCHANGED <<remedy, tkvars, workers, progress>>
    /\ UNCHANGED <<chromeVars, libVars, pageVars, MARKDOWN_AVAILABLE>>

\* l.602-623, 633-635: Tk() may fail (TclError is not caught at l.640); a frozen
\* executable shows an error; a script asks whether to install
MainDialog ==
    /\ main_pc = "dialog"
    /\ \E tk_ok \in BOOLEAN, frozen \in BOOLEAN, answer \in BOOLEAN :
          IF ~tk_ok THEN main_pc' = "crashed" /\ remedy' = "none"
          ELSE IF frozen THEN main_pc' = "return" /\ remedy' = "corrupt"
          ELSE IF answer THEN main_pc' = "install" /\ remedy' = "none"
          ELSE main_pc' = "return" /\ remedy' = "manual"
    /\ UNCHANGED <<tkvars, workers, progress>>
    /\ UNCHANGED <<chromeVars, libVars, pageVars, MARKDOWN_AVAILABLE>>

\* l.624-632: pip install markdown; the flag set at import is not set again
MainInstall ==
    /\ main_pc = "install"
    /\ \E pip_ok \in BOOLEAN :
          remedy' = IF pip_ok THEN "installed" ELSE "install_failed"
    /\ main_pc' = "return"
    /\ UNCHANGED <<tkvars, workers, progress>>
    /\ UNCHANGED <<chromeVars, libVars, pageVars, MARKDOWN_AVAILABLE>>

\* l.637-638
MainReturn ==
    /\ main_pc = "return"
    /\ main_pc' = AfterRemedy(remedy)
    /\ UNCHANGED <<remedy, tkvars, workers, progress>>
    /\ UNCHANGED <<chromeVars, libVars, pageVars, MARKDOWN_AVAILABLE>>

\* l.646-671: ConverterGUI() and mainloop, or an error dialog and return
MainLaunch ==
    /\ main_pc = "launch"
    /\ \E tk_ok \in BOOLEAN :
          /\ main_pc' = IF tk_ok THEN "gui" ELSE "returned"
          /\ tkvars' = IF tk_ok THEN NewTkVars ELSE tkvars
    /\ UNCHANGED <<remedy, workers, progress>>
    /\ UNCHANGED <<chromeVars, libVars, pageVars, MARKDOWN_AVAILABLE>>

\* l.502-509 and the entry of l.423: the user selects another file
UserSetFile ==
    /\ main_pc = "gui"
    /\ \E f \in GuiFiles \ {tkvars.file_var} : tkvars' = [tkvars EXCEPT !.file_var = f]
    /\ UNCHANGED <<main_pc, remedy, workers, progress>>
    /\ UNCHANGED <<chromeVars, libVars, pageVars, MARKDOWN_AVAILABLE>>

\* l.511-515
UserSetDir ==
    /\ main_pc = "gui"
    /\ tkvars.dir_var = ""
    /\ tkvars' = [tkvars EXCEPT !.dir_var = "in"]
    /\ UNCHANGED <<main_pc, remedy, workers, progress>>
    /\ UNCHANGED <<chromeVars, libVars, pageVars, MARKDOWN_AVAILABLE>>

\* l.517-521 and the entry of l.456
UserSetOutputDir ==
    /\ main_pc = "gui"
    /\ \E d \in GuiOutputDirs \ {tkvars.output_dir_var} :
          tkvars' = [tkvars EXCEPT !.output_dir_var = d]
    /\ UNCHANGED <<main_pc, remedy, workers, progress>>
    /\ UNCHANGED <<chromeVars, libVars, pageVars, MARKDOWN_AVAILABLE>>

\* l.442-446: the radio buttons
UserSetFormat ==
    /\ main_pc = "gui"
    /\ \E f \in Formats \ {tkvars.output_format} :
          tkvars' = [tkvars EXCEPT !.output_format = f]
    /\ UNCHANGED <<main_pc, remedy, workers, progress>>
    /\ UNCHANGED <<chromeVars, libVars, pageVars, MARKDOWN_AVAILABLE>>

NewWorker(kind) ==
    [kind |-> kind, pc |-> "start", output_dir |-> "", fmt |-> "", input |-> None,
     output_file |-> None, html_file |-> None, writing |-> None, result |-> None,
     exc |-> "none"]

\* l.523-527, 559: Convert File starts a thread unless no file is selected
ClickConvert ==
    /\ main_pc = "gui"
    /\ BagCardinality(workers) < MaxWorkers
    /\ workers' = IF tkvars.file_var = None THEN workers
                  ELSE workers (+) SetToBag({NewWorker("file")})
    /\ UNCHANGED <<main_pc, remedy, tkvars, progress>>
    /\ UNCHANGED <<chromeVars, libVars, pageVars, MARKDOWN_AVAILABLE>>

\* l.561-565, 589: Batch Convert starts a thread unless no directory is selected
ClickBatch ==
    /\ main_pc = "gui"
    /\ BagCardinality(workers) < MaxWorkers
    /\ workers' = IF tkvars.dir_var = "" THEN workers
                  ELSE workers (+) SetToBag({NewWorker("batch")})
    /\ UNCHANGED <<main_pc, remedy, tkvars, progress>>
    /\ UNCHANGED <<chromeVars, libVars, pageVars, MARKDOWN_AVAILABLE>>

\* the bag with one thread's frame wk replaced by next
Step(ws, wk, next) == (ws (-) SetToBag({wk})) (+) SetToBag({next})

\* the frame once the conversion returned `result` or raised `exc`: l.550-557
\* read nothing else, so the other locals are dropped
Finishing(wk, result, exc) ==
    [NewWorker(wk.kind) EXCEPT !.pc = "finish", !.input = wk.input,
                               !.result = result, !.exc = exc]

\* l.531-537 (convert_thread) and l.569-574 (batch_thread): progress.start(), the
\* log line, output_dir and the format
WorkerStart(wk) ==
    /\ wk.pc = "start"
    /\ progress' = TRUE
    /\ workers' = Step(workers, wk, [wk EXCEPT
          !.pc = IF wk.kind = "file" THEN "input" ELSE "batch",
          !.output_dir =
              IF tkvars.output_dir_var # "" THEN tkvars.output_dir_var
              ELSE IF wk.kind = "file" THEN tkvars.file_var[1]
              ELSE tkvars.dir_var,
          !.fmt = tkvars.output_format])
    /\ UNCHANGED <<main_pc, remedy, tkvars>>
    /\ UNCHANGED <<chromeVars, libVars, pageVars, MARKDOWN_AVAILABLE>>

\* l.539 / l.545: the first argument, self.file_var.get()
WorkerReadInput(wk) ==
    /\ wk.pc = "input"
    /\ workers' = Step(workers, wk, [wk EXCEPT !.pc = "output", !.input = tkvars.file_var])
    /\ UNCHANGED <<main_pc, remedy, tkvars, progress>>
    /\ UNCHANGED <<chromeVars, libVars, pageVars, MARKDOWN_AVAILABLE>>

\* l.540 / l.546: the second argument, built from another self.file_var.get()
WorkerReadOutput(wk) ==
    /\ wk.pc = "output"
    /\ workers' = Step(workers, wk, [wk EXCEPT
          !.pc = "call",
          !.output_file = <<wk.output_dir, StemDot(Stem(tkvars.file_var[2]), wk.fmt)>>])
    /\ UNCHANGED <<main_pc, remedy, tkvars, progress>>
    /\ UNCHANGED <<chromeVars, libVars, pageVars, MARKDOWN_AVAILABLE>>

\* the file convert_md_to_html writes for this worker: its output_file, or for
\* convert_md_to_pdf (l.326, no output_file passed) the source with .html
WorkerHtmlFile(wk) ==
    IF wk.fmt = "pdf" THEN <<wk.input[1], WithSuffix(wk.input[2], "html")>>
                      ELSE wk.output_file

\* l.231-283: convert_md_to_html up to opening the output file for writing; the
\* source may be missing or unreadable
WorkerHtmlOpen(wk) ==
    /\ wk.pc = "call"
    /\ \E e \in {"none", "FileNotFoundError", "UnicodeDecodeError"} :
          workers' = Step(workers, wk,
              IF ~MARKDOWN_AVAILABLE THEN Finishing(wk, None, "ImportError")
              ELSE IF e # "none" THEN Finishing(wk, None, e)
              ELSE [wk EXCEPT !.pc = "writing", !.writing = WorkerHtmlFile(wk)])
    /\ UNCHANGED <<main_pc, remedy, tkvars, progress>>
    /\ UNCHANGED <<chromeVars, libVars, pageVars, MARKDOWN_AVAILABLE>>

\* l.284-286: the HTML is written and the file closed
WorkerHtmlClose(wk) ==
    /\ wk.pc = "writing"
    /\ workers' = Step(workers, wk,
          IF wk.fmt = "pdf"
            THEN [wk EXCEPT !.pc = "chrome", !.html_file = wk.writing, !.writing = None]
            ELSE Finishing(wk, wk.writing, "none"))
    /\ UNCHANGED <<main_pc, remedy, tkvars, progress>>
    /\ UNCHANGED <<chromeVars, libVars, pageVars, MARKDOWN_AVAILABLE>>

\* l.329-344: the PDF stage and what convert_md_to_pdf returns after it
WorkerPdfStage(wk) ==
    /\ wk.pc = "chrome"
    /\ \E c \in ChromeExits :
          workers' = Step(workers, wk,
              CASE c = "true"   -> Finishing(wk, wk.output_file, "none")
                [] c = "false"  -> Finishing(wk, wk.html_file, "none")
                [] c = "raised" -> Finishing(wk, None, "PermissionError"))
    /\ UNCHANGED <<main_pc, remedy, tkvars, progress>>
    /\ UNCHANGED <<chromeVars, libVars, pageVars, MARKDOWN_AVAILABLE>>

\* l.576-578: converter.batch_convert(dir_var, output_dir, to_pdf) as one step;
\* its own steps are those of Spec
WorkerBatchRun(wk) ==
    /\ wk.pc = "batch"
    /\ \E e \in {"none", "ValueError"} :
          workers' = Step(workers, wk, Finishing(wk, None, e))
    /\ UNCHANGED <<main_pc, remedy, tkvars, progress>>
    /\ UNCHANGED <<chromeVars, libVars, pageVars, MARKDOWN_AVAILABLE>>

\* l.550-557 and l.580-587: the log line, the dialog, and finally
\* progress.stop(); the thread ends
WorkerFinish(wk) ==
    /\ wk.pc = "finish"
    /\ progress' = FALSE
    /\ workers' = workers (-) SetToBag({wk})
    /\ UNCHANGED <<main_pc, remedy, tkvars>>
    /\ UNCHANGED <<chromeVars, libVars, pageVars, MARKDOWN_AVAILABLE>>

\* the process starts: the import at l.31-37 has set MARKDOWN_AVAILABLE
InitGui ==
    /\ ChromeIdle /\ LibIdle /\ PageIdle
    /\ MARKDOWN_AVAILABLE \in BOOLEAN
    /\ main_pc = "start"
    /\ remedy = "none"
    /\ tkvars = NewTkVars
    /\ workers = EmptyBag
    /\ progress = FALSE

NextGui ==
    \/ MainCheck
    \/ MainDialog
    \/ MainInstall
    \/ MainReturn
    \/ MainLaunch
    \/ UserSetFile
    \/ UserSetDir
    \/ UserSetOutputDir
    \/ UserSetFormat
    \/ ClickConvert
    \/ ClickBatch
    \/ \E wk \in BagToSet(workers) : WorkerStart(wk)
    \/ \E wk \in BagToSet(workers) : WorkerReadInput(wk)
    \/ \E wk \in BagToSet(workers) : WorkerReadOutput(wk)
    \/ \E wk \in BagToSet(workers) : WorkerHtmlOpen(wk)
    \/ \E wk \in BagToSet(workers) : WorkerHtmlClose(wk)
    \/ \E wk \in BagToSet(workers) : WorkerPdfStage(wk)
    \/ \E wk \in BagToSet(workers) : WorkerBatchRun(wk)
    \/ \E wk \in BagToSet(workers) : WorkerFinish(wk)

SpecGui == InitGui /\ [][NextGui]_vars

(***************************************************************************)
(* SpecRender: the document convert_md_to_html writes.  A text is the       *)
(* sequence of its words and tags.                                         *)
(***************************************************************************)

\* the longest Markdown body and the longest file stem, in words
MaxWords == 3
MaxStemWords == 2

GeneratedOn == <<"Generated", "on">>
Attribution == <<"Converted with Universal Markdown Converter">>

\* the words of a Markdown body and, separated by "_", of a file stem
BodyWords == {"Generated", "on", "Converted with Universal Markdown Converter", "hello"}
StemWords == {"generated", "on", "notes"}

SeqsUpTo(S, n) == UNION { [1..k -> S] : k \in 0..n }

\* str.title() on one word: the first letter upper case, the rest lower case
Capitalize(w) ==
    CASE w = "generated" -> "Generated"
      [] w = "on"        -> "On"
      [] w = "notes"     -> "Notes"
      [] OTHER           -> w

\* l.266, 275: input_path.stem.replace('_', ' ').title()
Title(stem) == [k \in 1..Len(stem) |-> Capitalize(stem[k])]

\* l.257-258: md.convert(md_content) on plain words: one paragraph, or nothing
\* for an empty source
MarkdownConvert(body) == IF body = << >> THEN << >> ELSE <<"<p>">> \o body \o <<"</p>">>

\* l.213-218
create_header_section(title, date) ==
    <<"<div class=header>", "<h1 class=document-title>">> \o title \o
    <<"</h1>", "<p class=document-meta>", "Generated", "on", date, "|",
      "<a>", "Print to PDF", "</a>", "</p>", "</div>">>

\* l.220-227
create_footer_section ==
    <<"<div class=footer>", "<hr>", "<p>",
      "Converted with Universal Markdown Converter", "</p>", "</div>">>

SectionsAlwaysFooter(include_headers, title, date) ==
    IF include_headers
      THEN [header |-> create_header_section(title, date), footer |-> create_footer_section]
      ELSE [header |-> << >>, footer |-> create_footer_section]
\* l.264-272
Sections(include_headers, title, date) ==
    IF include_headers
      THEN [header |-> create_header_section(title, date), footer |-> create_footer_section]
      ELSE [header |-> << >>, footer |-> << >>]

\* l.196-211, 274-280: html_template.format(...)
FormatTemplate(title, css, content, header_section, footer_section) ==
    <<"<!DOCTYPE html>", "<html>", "<head>", "<meta>", "<meta>", "<title>">> \o title \o
    <<"</title>", "<style>", css, "</style>", "</head>", "<body>">> \o header_section \o
    <<"<div class=content>">> \o content \o <<"</div>">> \o footer_section \o
    <<"</body>", "</html>">>

\* how often the phrase occurs in the text
Count(text, phrase) ==
    Cardinality({ k \in 1..(Len(text) - Len(phrase) + 1) :
                    SubSeq(text, k, k + Len(phrase) - 1) = phrase })

\* l.257-258
ConvertMarkdown ==
    /\ page.state = "read"
    /\ page' = [page EXCEPT !.state = "converted",
                            !.html_content = MarkdownConvert(page.md_content)]
    /\ UNCHANGED <<chromeVars, libVars, guiVars, MARKDOWN_AVAILABLE>>

\* l.261-284
AssemblePage ==
    /\ page.state = "converted"
    /\ LET title == Title(page.stem)
           sec   == Sections(page.include_headers, title, "date")
       IN  page' = [page EXCEPT
               !.state = "written",
               !.full_html = FormatTemplate(title, "css", page.html_content,
                                            sec.header, sec.footer)]
    /\ UNCHANGED <<chromeVars, libVars, guiVars, MARKDOWN_AVAILABLE>>

\* the source has been read (l.242-243)
InitRender ==
    /\ ChromeIdle /\ LibIdle /\ GuiIdle
    /\ MARKDOWN_AVAILABLE = TRUE
    /\ \E stem \in SeqsUpTo(StemWords, MaxStemWords) \ {<< >>},
          body \in SeqsUpTo(BodyWords, MaxWords), inc \in BOOLEAN :
          page = [state |-> "read", stem |-> stem, md_content |-> body,
                  include_headers |-> inc, html_content |-> << >>, full_html |-> << >>]

NextRender ==
    \/ ConvertMarkdown
    \/ AssemblePage

SpecRender == InitRender /\ [][NextRender]_vars

(***************************************************************************)
(* Properties of html_to_pdf_chrome (SpecChrome)                           *)
(***************************************************************************)

\* C2: no exception of a candidate's attempt leaves html_to_pdf_chrome: every one
\* is swallowed and the next candidate tried, so the function never raises and
\* returns false only after all candidates were attempted.
C2_ExceptionsSwallowed ==
    /\ chrome_ret # "raised"
    /\ chrome_ret = "false" => Len(attempts) = Len(chrome_paths)

\* C3: candidates are tried in list order; the render command is issued only for a
\* candidate whose version probe succeeded; no candidate is tried after one that
\* passed both steps; and the result is true exactly when a candidate passed both.
C3_FirstSuccessWins ==
    /\ \A k \in 1..Len(attempts) : attempts[k].path = chrome_paths[k]
    /\ \A k \in 1..Len(attempts) : attempts[k].render # "none" => attempts[k].probe = "ok"
    /\ \A k \in 1..Len(attempts) : Passed(attempts[k]) => k = Len(attempts)
    /\ chrome_ret = "true" <=> \E k \in 1..Len(attempts) : Passed(attempts[k])

\* the third candidate wins after one failed probe and one failed render
C3_Witness ==
    /\ chrome_ret = "true"
    /\ Len(attempts) = 3
    /\ attempts[1].probe = "CalledProcessError"
    /\ attempts[2].probe = "ok" /\ attempts[2].render = "exit1"
    /\ Passed(attempts[3])

(***************************************************************************)
(* Properties of the pipeline (Spec)                                       *)
(***************************************************************************)

IsHtmlPath(p) == p # None /\ p[2][Len(p[2])] = "html"

\* C1: when convert_md_to_html succeeded and the PDF stage ended without a PDF,
\* convert_md_to_pdf raises nothing and returns the path, ending in .html, of the
\* intermediate HTML file, which is still on disk.
C1_DegradesToHtml ==
    (/\ call.fn = "pdf" /\ call.pc = "done"
     /\ call.html_file # None
     /\ call.chrome \in {"false", "raised"})
    => /\ call.exc = "none"
       /\ call.ret = call.html_file
       /\ IsHtmlPath(call.ret)
       /\ call.ret \in DOMAIN fs

\* C4: once files are matched, batch_convert does not raise, attempts the matched
\* files one by one, each once, and ends with one result for every file whose
\* conversion did not raise and none for a file whose conversion raised.
C4_BatchIsolatesFailures ==
    batch.md_files # << >>
    => /\ batch.exc = "none"
       /\ batch.attempted = SubSeq(batch.md_files, 1, Len(batch.attempted))
       /\ Len(batch.results) + Len(batch.failed) =
             IF batch.pc = "converting" THEN batch.idx - 1 ELSE Len(batch.attempted)
       /\ batch.pc = "done"
             => /\ batch.attempted = batch.md_files
                /\ Len(batch.results) = Len(batch.md_files) - Len(batch.failed)

\* three matched files, the first fails, the two after it are converted
C4_Witness ==
    /\ batch.pc = "done"
    /\ Len(batch.md_files) = 3
    /\ batch.failed = <<batch.md_files[1]>>
    /\ Len(batch.results) = 2

\* C6: the PDF stage is attempted only after convert_md_to_html returned the
\* intermediate HTML; after a successful PDF stage the HTML is unlinked, a failing
\* unlink is ignored, and the PDF output path is returned.
C6_HtmlFirstThenCleanup ==
    call.fn = "pdf"
    => /\ call.pc = "chrome"
             => /\ call.html_file \in DOMAIN fs
                /\ fs[call.html_file] = [kind |-> "html", of |-> call.input]
       /\ call.chrome # "none" => call.html_file # None
       /\ (call.pc = "done" /\ call.chrome = "true")
             => /\ call.unlink \in {"ok", "failed"}
                /\ call.unlink = "ok" => call.html_file \notin DOMAIN fs
                /\ call.exc = "none"
                /\ call.ret = IF call.output = None
                                THEN <<call.input[1], WithSuffix(call.input[2], "pdf")>>
                                ELSE call.output

\* the PDF was produced and the unlink of the intermediate HTML failed
C6_Witness ==
    /\ call.fn = "pdf" /\ call.pc = "done"
    /\ call.chrome = "true" /\ call.unlink = "failed"
    /\ call.html_file \in DOMAIN fs
    /\ call.ret = call.output_file

\* C7 as claimed: a single-file conversion raises FileNotFoundError whenever the
\* source does not exist and ImportError whenever the Markdown engine is
\* unavailable.
C7_Original ==
    call.pc = "done"
    => /\ ~call.input_existed => call.exc = "FileNotFoundError"
       /\ ~MARKDOWN_AVAILABLE => call.exc = "ImportError"

\* C7 amended: ImportError whenever the engine is unavailable, whether or not the
\* source exists; FileNotFoundError whenever the engine is available and the
\* source does not exist.  Both for convert_md_to_html and convert_md_to_pdf.
C7_EngineCheckedFirst ==
    call.pc = "done"
    => /\ ~MARKDOWN_AVAILABLE => call.exc = "ImportError" /\ call.ret = None
       /\ (MARKDOWN_AVAILABLE /\ ~call.input_existed)
             => call.exc = "FileNotFoundError" /\ call.ret = None

\* convert_md_to_pdf called for a missing source without the engine
C7_Witness ==
    /\ call.fn = "pdf" /\ call.pc = "done" /\ call.owner = "api"
    /\ ~MARKDOWN_AVAILABLE /\ ~call.input_existed
    /\ call.exc = "ImportError"

(***************************************************************************)
(* Properties of the GUI process (SpecGui)                                 *)
(***************************************************************************)

\* C5: the path a single-file conversion started from the GUI returns has the
\* stem of the source file it converted, also when the selected file is changed
\* while the worker is running.
C5_OutputStemMatchesSource ==
    \A wk \in BagToSet(workers) :
        (wk.kind = "file" /\ wk.pc = "finish" /\ wk.result # None)
        => Stem(wk.result[2]) = Stem(wk.input[2])

\* C8: in a process that started without the Markdown engine, main() never
\* reaches the GUI, so no worker and no conversion ever exists, whatever the
\* dialogs and the automatic install did.
C8_NoConversionWithoutEngine ==
    ~MARKDOWN_AVAILABLE
    => /\ main_pc \in {"start", "dialog", "install", "return", "returned", "crashed"}
       /\ workers = EmptyBag
       /\ progress = FALSE

\* main() returned after pip installed the engine, in a process started without it
C8_Witness ==
    /\ ~MARKDOWN_AVAILABLE
    /\ main_pc = "returned"
    /\ remedy = "installed"

\* C10: no two conversion workers have the same output file open for writing at
\* the same time.
C10_NoSharedWrites ==
    \A wk \in BagToSet(workers) :
        wk.writing # None
        => /\ CopiesIn(wk, workers) = 1
           /\ \A other \in BagToSet(workers) \ {wk} : other.writing # wk.writing

(***************************************************************************)
(* Properties of the assembled document (SpecRender)                       *)
(***************************************************************************)

Added(include_headers) == IF include_headers THEN 1 ELSE 0

\* C9 as claimed: for every Markdown input the written document contains
\* "Generated on" and the footer attribution not at all with
\* include_headers=false and exactly once each with include_headers=true.
C9_Original ==
    page.state = "written"
    => /\ Count(page.full_html, GeneratedOn) = Added(page.include_headers)
       /\ Count(page.full_html, Attribution) = Added(page.include_headers)

\* C9 amended: the written document contains each of the two texts as often as
\* the converted Markdown body does with include_headers=false, and exactly once
\* more with include_headers=true.
C9_TemplateAddsOnce ==
    page.state = "written"
    => /\ Count(page.full_html, GeneratedOn) =
             Count(page.html_content, GeneratedOn) + Added(page.include_headers)
       /\ Count(page.full_html, Attribution) =
             Count(page.html_content, Attribution) + Added(page.include_headers)

\* generated_on.md, whose body holds neither text, written without header and
\* footer: the title "Generated On" does not count
C9_Witness ==
    /\ page.state = "written"
    /\ ~page.include_headers
    /\ page.stem = <<"generated", "on">>
    /\ page.md_content = <<"hello">>
    /\ Count(page.full_html, GeneratedOn) = 0
    /\ Count(page.full_html, Attribution) = 0

\* C11: every conversion started from the GUI runs on a worker thread of its
\* own, and progress indication is on whenever a worker that has started
\* (progress.start() done) has not yet ended (progress.stop() not yet done), and
\* is off once all workers have finished.
C11_ProgressWhileWorking ==
    /\ \A wk \in BagToSet(workers) : wk.pc # "start" => progress
    /\ workers = EmptyBag => ~progress

\* the elements of a sequence
Range(s) == { s[i] : i \in DOMAIN s }

\* the enumeration with the failed files removed
Succeeded(b) == SelectSeq(b.md_files, LAMBDA n : n \notin Range(b.failed))

\* the paths a conversion of `name` in batch b can return: its output file, or
\* for a PDF that degraded the HTML beside the source
ResultsOf(b, name) ==
    { BatchOutputFile(b, name), <<b.input_dir, WithSuffix(name, "html")>> }

\* C12: batch_convert processes the matched files strictly one after the other
\* in enumeration order: the files begun so far are a prefix of the
\* enumeration, a file's conversion runs only after every earlier file has
\* succeeded or failed, and the returned list is the enumeration with the
\* failed files removed, in that order.
C12_SequentialInOrder ==
    /\ batch.attempted = SubSeq(batch.md_files, 1, Len(batch.attempted))
    /\ (call.owner = "batch" /\ call.fn # "none")
          => /\ batch.pc = "converting"
             /\ Len(batch.attempted) = batch.idx
             /\ call.input = <<batch.input_dir, batch.md_files[batch.idx]>>
             /\ Len(batch.results) + Len(batch.failed) = batch.idx - 1
    /\ (batch.pc = "done" /\ batch.exc = "none")
          => /\ Len(batch.results) = Len(Succeeded(batch))
             /\ \A i \in DOMAIN batch.results :
                    batch.results[i] \in ResultsOf(batch, Succeeded(batch)[i])
             /\ batch.attempted = batch.md_files

\* a finished batch of at least three files whose second file failed and whose
\* first and third were converted
C12_Witness ==
    /\ batch.pc = "done"
    /\ Len(batch.md_files) >= 3
    /\ batch.failed = <<batch.md_files[2]>>
    /\ Len(batch.results) = Len(batch.md_files) - 1
    /\ batch.results[1] = BatchOutputFile(batch, batch.md_files[1])
    /\ batch.results[2] = BatchOutputFile(batch, batch.md_files[3])
    /\ batch.results[1] # batch.results[2]

\* C13: a convert_md_to_pdf call whose PDF stage succeeds changes no file other
\* than the PDF at its output path: every file that existed before the call
\* (a <stem>.html beside the input in particular) still exists with its
\* content, and once the clean-up has run no other file has been added.
C13_PdfSuccessKeepsOtherFiles ==
    (call.fn = "pdf" /\ call.pc = "done" /\ call.chrome = "true")
    => /\ \A p \in DOMAIN call.before \ {call.output_file} :
              p \in DOMAIN fs /\ fs[p] = call.before[p]
       /\ call.unlink = "ok" => DOMAIN fs \subseteq DOMAIN call.before \cup {call.output_file}

\* C14: every path returned by batch_convert lies in the resolved output
\* directory (output_dir when given, otherwise input_dir), for both formats and
\* also when a PDF degraded to HTML, and after the run no file the batch
\* produced remains outside that directory.
C14_BatchOutputInOutputDir ==
    (batch.pc = "done" /\ batch.exc = "none")
    => /\ \A i \in DOMAIN batch.results : batch.results[i][1] = batch.output_path
       /\ \A p \in DOMAIN fs : fs[p].kind # "orig" => p[1] = batch.output_path

\* the running call ended in convert_md_to_html's InputNotFound (the source did
\* not exist) or DependencyMissing (no Markdown engine)
FailedPrecondition(c) ==
    /\ c.fn \in {"html", "pdf"}
    /\ c.pc = "done"
    /\ \/ c.exc = "ImportError"
       \/ c.exc = "FileNotFoundError" /\ ~c.input_existed

\* C15: an operation that fails on its precondition leaves the file system as
\* it was: after convert_md_to_html raised for a missing source or a missing
\* Markdown engine every file is what it was when the call was made (the output
\* file is neither created nor modified), and after batch_convert raised for a
\* missing input directory the directories are those that existed before (the
\* output directory was not created) and no file has been written.
C15_FailedPreconditionChangesNothing ==
    /\ FailedPrecondition(call) => fs = call.before
    /\ (batch.pc = "done" /\ batch.exc = "ValueError")
          => /\ dirs = batch.dirs_before
             /\ \A p \in DOMAIN fs : fs[p] = Original(p)

\* convert_md_to_html("in/a.md", "in/a.html") with no a.md and an a.html already
\* on disk: the call raised and a.html is the file it was
C15_Witness ==
    /\ call.fn = "html" /\ call.pc = "done"
    /\ call.exc = "FileNotFoundError" /\ ~call.input_existed
    /\ call.input = <<"in", <<"a", "md">>>>
    /\ call.output = <<"in", StaleHtml>>
    /\ call.output \in DOMAIN fs
    /\ fs[call.output] = Original(call.output)

====
